---- MODULE Spec2Model ----
(***************************************************************************)
(* A model of manim/mobject/geometry.py: the tip protocol of               *)
(* TipableVMobject, Line and Arrow (buffering, endpoint placement, the     *)
(* scale-dependent tip length and stroke width), Arc, ArcBetweenPoints     *)
(* and Polygon.round_corners.                                              *)
(*                                                                         *)
(* Numbers are exact rationals <<n, d>> in lowest terms with d > 0; the    *)
(* IEEE specials numpy produces on a division by zero are <<1, 0>> (+inf), *)
(* <<-1, 0>> (-inf) and <<0, 0>> (nan).  Lines and arrows lie on the       *)
(* x axis, so a point is its x coordinate, a rotation is by 0 or by PI     *)
(* (a reflection about the pivot) and a norm is an absolute value.         *)
(*                                                                         *)
(* The program computes in IEEE doubles.  Away from an equality the two    *)
(* agree up to the rounding of the last bits, which the model leaves out.  *)
(* Where a test of the program (`get_length() == 0`, `curr_start ==        *)
(* curr_end`, `length < 2 * buff`, the direction of a zero vector) falls   *)
(* on numbers that are equal in the model, the program's outcome is the    *)
(* model's only if its two floats are known to be equal: the model keeps   *)
(* track of which numbers are known to be carried without rounding (the    *)
(* fields exact, flat, attrs_exact).  In every other such case the outcome *)
(* hangs on the last bit of a float, the call is left with `Rounding`, and *)
(* no step of the state machine takes it.                                  *)
(***************************************************************************)
EXTENDS Integers, Sequences, FiniteSets, TLC

(* ------------------------------------------------------------------ *)
(* Rational arithmetic                                                 *)
(* ------------------------------------------------------------------ *)
RECURSIVE GCD(_, _)
GCD(a, b) == IF b = 0 THEN a ELSE GCD(b, a % b)

IAbs(n) == IF n < 0 THEN -n ELSE n

Lowest(n, d, g) ==
    IF d < 0 THEN <<(-n) \div g, (-d) \div g>> ELSE <<n \div g, d \div g>>

\* the rational n / d, d # 0
R(n, d) == Lowest(n, d, GCD(IAbs(n), IAbs(d)))

Zero == <<0, 1>>

One == <<1, 1>>

Two == <<2, 1>>

NaN == <<0, 0>>

PosInf == <<1, 0>>

NegInf == <<-1, 0>>

IsFinite(a) == a[2] # 0

\* The four operations on finite numbers in lowest terms; common factors are
\* divided out before multiplying
AddOver(a, b, g) ==
    R(a[1] * (b[2] \div g) + b[1] * (a[2] \div g), (a[2] \div g) * b[2])

RAdd(a, b) == AddOver(a, b, GCD(a[2], b[2]))

RNeg(a) == <<-a[1], a[2]>>

RSub(a, b) == RAdd(a, RNeg(b))

MulOver(a, b, g, h) ==
    R((a[1] \div g) * (b[1] \div h), (a[2] \div h) * (b[2] \div g))

RMul(a, b) == MulOver(a, b, GCD(IAbs(a[1]), b[2]), GCD(IAbs(b[1]), a[2]))

\* a / b, b # 0
RQuot(a, b) == RMul(a, R(b[2], b[1]))

\* numpy's float division: x / 0 is +-inf and 0 / 0 is nan, with no exception
RDiv(a, b) ==
    IF b[1] # 0 THEN RQuot(a, b)
    ELSE IF a[1] > 0 THEN PosInf
    ELSE IF a[1] < 0 THEN NegInf
    ELSE NaN

LtOver(a, b, g) == a[1] * (b[2] \div g) < b[1] * (a[2] \div g)

RLt(a, b) == LtOver(a, b, GCD(a[2], b[2]))

RLe(a, b) == ~RLt(b, a)

RAbs(a) == <<IAbs(a[1]), a[2]>>

\* Python's min(a, b): b if b < a else a
RMin(a, b) == IF RLt(b, a) THEN b ELSE a

\* interpolate(a, b, t) = (1 - t) * a + t * b
Interpolate(a, b, t) == RAdd(RMul(RSub(One, t), a), RMul(t, b))

(* ------------------------------------------------------------------ *)
(* Program constants                                                   *)
(* ------------------------------------------------------------------ *)
DEFAULT_ARROW_TIP_LENGTH == <<7, 20>>

MED_SMALL_BUFF == <<1, 4>>

ARROW_STROKE_WIDTH == <<6, 1>>

MAX_TIP_LENGTH_TO_LENGTH_RATIO == <<1, 4>>

MAX_STROKE_WIDTH_TO_LENGTH_RATIO == <<5, 1>>

NoErr == "none"

\* the mark of a call whose outcome hangs on the rounding of a float
Rounding == "rounding"

\* path_arc = None
PathArcNone == <<>>

\* about_point = None
AboutNone == <<>>

\* tip_length = None
TipLengthNone == <<>>

\* start = None, end = None: the defaults of ArcBetweenPoints
PointNone == <<>>

(* ------------------------------------------------------------------ *)
(* The object: a Line or an Arrow with its tips.                       *)
(*   points        the four control points of the single cubic         *)
(*   start, end    the Line.start / Line.end attributes                *)
(*   heap          every ArrowTip object created so far, by identity;  *)
(*                 a tip is its apex points[0] and its base, with the  *)
(*                 end it was created for (at_start)                   *)
(*   submobjects   the identities of the children, in order            *)
(*   tip, start_tip  0 while the attribute is not set                  *)
(*   err           the exception that left the last call, if any       *)
(*   exact         the two anchors of the path are the floats of the   *)
(*                 model's numbers: they were set from given points    *)
(*                 and not moved since                                 *)
(*   flat          the four control points are one and the same float  *)
(*   attrs_exact   start and end are points given by a caller, not     *)
(*                 points read back from a moved curve                 *)
(*   heap[i].exact the apex of the tip is the float of the model's     *)
(*                 number                                              *)
(* An operator whose name continues another's (Put..., Attach...,      *)
(* ArrowScale...) is the rest of that method, applied to the object    *)
(* the first part produced.                                            *)
(* ------------------------------------------------------------------ *)
InGroup(seq, x) == \E i \in 1..Len(seq) : seq[i] = x

RemoveFrom(seq, x) == SelectSeq(seq, LAMBDA e : e # x)

\* Mobject.add: list_update(submobjects, [m])
Mobject_add(o, m) ==
    [o EXCEPT !.submobjects = Append(RemoveFrom(@, m), m)]

\* Mobject.remove
Mobject_remove(o, m) == [o EXCEPT !.submobjects = RemoveFrom(@, m)]

Raise(o, e) == [o EXCEPT !.err = e]

has_tip(o) == o.tip # 0 /\ InGroup(o.submobjects, o.tip)

has_start_tip(o) == o.start_tip # 0 /\ InGroup(o.submobjects, o.start_tip)

\* ArrowTip.get_start() is points[0], the apex (ArrowTip.get_tip_point)
ArrowTip_get_start(t) == t.tip_point

ArrowTip_get_base(t) == t.base

ArrowTip_get_length(t) == RAbs(RSub(t.tip_point, t.base))

get_end(o) ==
    IF has_tip(o) THEN ArrowTip_get_start(o.heap[o.tip]) ELSE o.points[4]

get_start(o) ==
    IF has_start_tip(o) THEN ArrowTip_get_start(o.heap[o.start_tip])
    ELSE o.points[1]

get_length(o) == RAbs(RSub(get_start(o), get_end(o)))

\* get_start() (at_start) or get_end() is known without rounding
EndExact(o, at_start) ==
    IF at_start
    THEN IF has_start_tip(o) THEN o.heap[o.start_tip].exact ELSE o.exact
    ELSE IF has_tip(o) THEN o.heap[o.tip].exact ELSE o.exact

EndsExact(o) == EndExact(o, TRUE) /\ EndExact(o, FALSE)

\* get_start() and get_end(), equal in the model, are equal floats
EndsSame(o) ==
    IF EndsExact(o) THEN TRUE
    ELSE ~has_tip(o) /\ ~has_start_tip(o) /\ o.flat

get_first_handle(o) == o.points[2]

get_last_handle(o) == o.points[3]

TipableVMobject_get_default_tip_length(o) == o.tip_length

\* A faulty Arrow.get_default_tip_length that forgets the cap by the length
Arrow_get_default_tip_length_uncapped(o) == o.tip_length

Arrow_get_default_tip_length(o) ==
    RMin(o.tip_length, RMul(MAX_TIP_LENGTH_TO_LENGTH_RATIO, get_length(o)))

get_default_tip_length(o) ==
    IF o.kind = "Arrow" THEN Arrow_get_default_tip_length(o)
    ELSE TipableVMobject_get_default_tip_length(o)

\* ArrowTip(length): a triangle whose apex-to-base distance is `length`
get_unpositioned_tip(o, tip_length) ==
    IF tip_length = TipLengthNone THEN get_default_tip_length(o) ELSE tip_length

\* The tip is turned to point along anchor - handle (angle_of_vector of the
\* zero vector is 0, which turns it to -x) and its apex is put on anchor by
\* tip.shift(anchor - tip.get_tip_point()) (line 107): p + (anchor - p) is
\* anchor to the last bit when anchor is 0, and within one bit of it otherwise.
PositionTipAt(anchor, handle, length, at_start, exact) ==
    [tip_point |-> anchor,
     base |-> IF RLt(handle, anchor) THEN RSub(anchor, length)
              ELSE RAdd(anchor, length),
     at_start |-> at_start,
     exact |-> exact /\ anchor = Zero]

position_tip(o, length, at_start) ==
    PositionTipAt(IF at_start THEN get_start(o) ELSE get_end(o),
                  IF at_start THEN get_first_handle(o) ELSE get_last_handle(o),
                  length, at_start, EndExact(o, at_start))

\* position_tip: handle - anchor is not a zero vector of the model whose
\* floats may differ in the last bit, or the tip has no length to turn
TurnKnown(o, length, at_start) ==
    IF (IF at_start THEN get_start(o) # get_first_handle(o)
        ELSE get_end(o) # get_last_handle(o)) THEN TRUE
    ELSE IF length = Zero THEN TRUE
    ELSE IF (IF at_start THEN has_start_tip(o) ELSE has_tip(o)) THEN FALSE
    ELSE o.flat

create_tip(o, tip_length, at_start) ==
    position_tip(o, get_unpositioned_tip(o, tip_length), at_start)

\* The image of a point under a transformation of the plane restricted to
\* the axis: f.op names it and the other fields are its arguments.
\* "scale" with a factor inf or nan (the quotient of set_length on a zero
\* length): numpy gives nan for inf * 0 and for nan * x, and +-inf for inf * x.
PointImage(f, x) ==
    CASE f.op = "scale" /\ IsFinite(f.factor) ->
            RAdd(f.about, RMul(f.factor, RSub(x, f.about)))
      [] f.op = "scale" /\ ~IsFinite(f.factor) ->
            IF f.factor = NaN \/ x = f.about THEN NaN
            ELSE IF RLt(f.about, x) THEN f.factor
            ELSE RNeg(f.factor)
      [] f.op = "rotate" -> RSub(RAdd(f.about, f.about), x)
      [] f.op = "shift" -> RAdd(x, f.vector)

\* Apply f to every point of the family: the curve and its children.  The
\* images are rounded; a scaling by 0, about + 0 * (p - about), takes every
\* point to the one float `about`, and points that were one float stay one.
MapFamily(o, f) ==
    [o EXCEPT
       !.points = [i \in 1..4 |-> PointImage(f, o.points[i])],
       !.exact = FALSE,
       !.flat = IF f.op = "scale" THEN (@ \/ f.factor = Zero) ELSE @,
       !.heap = [i \in 1..Len(o.heap) |->
                   IF InGroup(o.submobjects, i)
                   THEN [o.heap[i] EXCEPT !.tip_point = PointImage(f, @),
                                          !.base = PointImage(f, @),
                                          !.exact = FALSE]
                   ELSE o.heap[i]]]

\* The anchors of the family, whose bounding box get_critical_point uses
FamilyAnchors(o) ==
    {o.points[1], o.points[4]}
      \cup {o.heap[o.submobjects[i]].tip_point : i \in 1..Len(o.submobjects)}
      \cup {o.heap[o.submobjects[i]].base : i \in 1..Len(o.submobjects)}

SetMin(S) == CHOOSE x \in S : \A y \in S : RLe(x, y)

SetMax(S) == CHOOSE x \in S : \A y \in S : RLe(y, x)

get_center(o) ==
    RQuot(RAdd(SetMin(FamilyAnchors(o)), SetMax(FamilyAnchors(o))), Two)

\* points = about + factor * (points - about)
ScaleAbout(o, factor, a) ==
    MapFamily(o, [op |-> "scale", factor |-> factor, about |-> a])

\* Mobject.scale(factor, about_point)
Mobject_scale(o, factor, about) ==
    ScaleAbout(o, factor, IF about = AboutNone THEN get_center(o) ELSE about[1])

\* Mobject.rotate by PI (flip) or by 0 about a point
Mobject_rotate(o, flip, a) ==
    MapFamily(o, IF flip THEN [op |-> "rotate", about |-> a]
                 ELSE [op |-> "shift", vector |-> Zero])

Mobject_shift(o, v) == MapFamily(o, [op |-> "shift", vector |-> v])

\* The anchors are the two corners as given; the handles are interpolated,
\* and are the float of the corners for certain only when that float is 0.
set_points_as_corners(o, s, e) ==
    [o EXCEPT !.points = <<s, Interpolate(s, e, <<1, 3>>),
                           Interpolate(s, e, <<2, 3>>), e>>,
              !.exact = o.attrs_exact,
              !.flat = o.attrs_exact /\ s = Zero /\ e = Zero]

\* VMobject.get_arc_length of the straight cubic
get_arc_length(o) == RAbs(RSub(o.points[4], o.points[1]))

\* VMobject.pointwise_become_partial(self, a, b) on the single straight cubic
pointwise_become_partial(o, a, b) ==
    IF RLe(a, Zero) /\ RLe(One, b) THEN o
    ELSE [set_points_as_corners(o,
              Interpolate(o.points[1], o.points[4], a),
              Interpolate(o.points[1], o.points[4], b))
          EXCEPT !.exact = FALSE, !.flat = FALSE]

\* account_for_buff from `if length < 2 * self.buff` on.  A length equal to
\* 2 * buff is known to be so in floats when it is get_length() of two ends
\* carried without rounding; get_arc_length() is a sum of rounded pieces.
TrimBuff(o, length) ==
    IF RLt(length, RMul(Two, o.buff)) THEN o
    ELSE IF length = RMul(Two, o.buff) /\ ~(o.path_arc = Zero /\ EndsExact(o))
    THEN Raise(o, Rounding)
    ELSE pointwise_become_partial(o, RQuot(o.buff, length),
                                  RSub(One, RQuot(o.buff, length)))

account_for_buff(o) ==
    IF o.buff = Zero THEN o
    ELSE TrimBuff(o, IF o.path_arc = Zero THEN get_length(o)
                     ELSE get_arc_length(o))

\* ArcBetweenPoints(a, b, angle=angle), the two points given by position as
\* lines 466 and 747 give them.  The generated __init__ of the class takes
\* the attributes in the order of their declaration, those of the base
\* classes first, so a and b do not reach `start` and `end` (lines 280-281),
\* which keep their default None.  With radius None, __attrs_post_init__
\* builds the unit arc of the angle and calls
\* put_start_and_end_on(self.start, self.end) (line 304), where
\* np.array(None) - np.array(None) raises: no object is returned.  (No angle
\* of the model is a whole number of turns, whose arc is a closed loop.)
ArcBetweenPoints(a, b, angle) ==
    [kind |-> "ArcBetweenPoints", start |-> PointNone, end |-> PointNone,
     angle |-> angle,
     err |-> "TypeError: unsupported operand type(s) for -: 'NoneType' and 'NoneType'"]

\* Line.generate_points: with a path_arc that is neither None nor 0 the
\* ArcBetweenPoints call of line 466 raises before set_points
generate_points(o) ==
    IF o.path_arc # PathArcNone /\ o.path_arc # Zero
    THEN Raise(o, ArcBetweenPoints(o.start, o.end, o.path_arc).err)
    ELSE account_for_buff(set_points_as_corners(o, o.start, o.end))

set_stroke_width_from_length(o) ==
    [o EXCEPT !.stroke_width =
        RMin(o.initial_stroke_width,
             RMul(MAX_STROKE_WIDTH_TO_LENGTH_RATIO, get_length(o)))]

(* ------------------------------------------------------------------ *)
(* The tip protocol.  put_start_and_end_on calls self.scale, which for *)
(* an Arrow is Arrow.scale, which pops and re-adds the tips, which     *)
(* calls put_start_and_end_on again: the operators are recursive as    *)
(* the methods are.  No method goes on once a call has raised.         *)
(* ------------------------------------------------------------------ *)
RECURSIVE scale(_, _, _)
RECURSIVE Arrow_scale(_, _, _)
RECURSIVE Mobject_put_start_and_end_on(_, _, _, _)
RECURSIVE put_start_and_end_on(_, _, _, _)
RECURSIVE reset_endpoints_based_on_tip(_, _, _)
RECURSIVE add_tip(_, _, _)
RECURSIVE pop_tips(_)

\* self.scale(...): the method of the object's class
scale(o, factor, about) ==
    IF o.kind = "Arrow" THEN Arrow_scale(o, factor, about)
    ELSE Mobject_scale(o, factor, about)

\* Mobject.put_start_and_end_on after self.scale: rotate, then shift
PutTurnAndShift(o, flip, curr_start, v) ==
    IF o.err # NoErr THEN o
    ELSE Mobject_shift(Mobject_rotate(o, flip, curr_start), v)

\* Mobject.put_start_and_end_on, given the current and the target vector;
\* `exact` tells that start and end are points given by the caller rather
\* than points read back from the curve or from a tip
PutScaled(o, curr_start, curr_vect, start, target_vect, exact) ==
    IF curr_vect = Zero
    THEN Raise(o, IF EndsSame(o)
                  THEN "Exception: Cannot position endpoints of closed loop"
                  ELSE Rounding)
    ELSE IF target_vect = Zero /\ ~exact THEN Raise(o, Rounding)
    ELSE PutTurnAndShift(
             scale(o, RQuot(RAbs(target_vect), RAbs(curr_vect)), <<curr_start>>),
             RLt(target_vect, Zero) # RLt(curr_vect, Zero),
             curr_start, RSub(start, curr_start))

\* Mobject.put_start_and_end_on
Mobject_put_start_and_end_on(o, start, end, exact) ==
    IF o.err # NoErr THEN o
    ELSE PutScaled(o, get_start(o), RSub(get_end(o), get_start(o)),
                   start, RSub(end, start), exact)

\* Line.put_start_and_end_on
put_start_and_end_on(o, start, end, exact) ==
    IF get_start(o) # get_end(o)
    THEN Mobject_put_start_and_end_on(o, start, end, exact)
    ELSE IF ~EndsSame(o) THEN Raise(o, Rounding)
    ELSE Mobject_put_start_and_end_on(
             generate_points([o EXCEPT !.start = start, !.end = end,
                                       !.attrs_exact = exact]),
             start, end, exact)

\* The base of a tip is a rounded point.
reset_endpoints_based_on_tip(o, t, at_start) ==
    IF get_length(o) = Zero
    THEN IF EndsSame(o) THEN o ELSE Raise(o, Rounding)
    ELSE put_start_and_end_on(o,
             IF at_start THEN ArrowTip_get_base(t) ELSE get_start(o),
             IF at_start THEN get_end(o) ELSE ArrowTip_get_base(t),
             FALSE)

\* The new tip object gets the next identity.
asign_tip_attr(o, t, at_start) ==
    [o EXCEPT !.heap = Append(@, t),
              !.start_tip = IF at_start THEN Len(o.heap) + 1 ELSE @,
              !.tip = IF at_start THEN @ ELSE Len(o.heap) + 1]

\* add_tip after reset_endpoints_based_on_tip: asign_tip_attr, self.add(tip)
AttachTip(o, t, at_start) ==
    IF o.err # NoErr THEN o
    ELSE Mobject_add(asign_tip_attr(o, t, at_start), Len(o.heap) + 1)

\* add_tip after create_tip
AddCreatedTip(o, t, at_start) ==
    AttachTip(reset_endpoints_based_on_tip(o, t, at_start), t, at_start)

add_tip(o, tip_length, at_start) ==
    IF ~TurnKnown(o, get_unpositioned_tip(o, tip_length), at_start)
    THEN Raise(o, Rounding)
    ELSE AddCreatedTip(o, create_tip(o, tip_length, at_start), at_start)

\* pop_tips: the removals, in the method's order
RemoveEndTip(o) == IF has_tip(o) THEN Mobject_remove(o, o.tip) ELSE o

RemoveStartTip(o) ==
    IF has_start_tip(o) THEN Mobject_remove(o, o.start_tip) ELSE o

\* pop_tips: the VGroup it returns
PoppedTips(o) ==
    (IF has_tip(o) THEN <<o.tip>> ELSE <<>>)
      \o (IF has_start_tip(RemoveEndTip(o)) THEN <<o.start_tip>> ELSE <<>>)

\* pop_tips returns the VGroup of the removed tips in `result`.
pop_tips(o) ==
    [o |-> put_start_and_end_on(RemoveStartTip(RemoveEndTip(o)),
                                get_start(o), get_end(o), EndsExact(o)),
     result |-> PoppedTips(o)]

\* Arrow.scale, one end's block after its add_tip, `fresh` being self.tip
\* (self.start_tip): copy the fresh tip's points into the old tip object, drop
\* the fresh one and put the old one back.
SwapTip(o, fresh, old_tips, k, at_start) ==
    IF k > Len(old_tips) THEN Raise(o, "IndexError")
    ELSE Mobject_add(
           [Mobject_remove(o, fresh) EXCEPT
              !.heap[old_tips[k]] = o.heap[fresh],
              !.start_tip = IF at_start THEN old_tips[k] ELSE @,
              !.tip = IF at_start THEN @ ELSE old_tips[k]],
           old_tips[k])

SwapFreshTip(o, old_tips, k, at_start) ==
    IF o.err # NoErr THEN o
    ELSE SwapTip(o, IF at_start THEN o.start_tip ELSE o.tip,
                 old_tips, k, at_start)

\* the `if has_tip:` / `if has_start_tip:` block of Arrow.scale (k = 0: the
\* end had no tip and the block is skipped)
RestoreTip(o, old_tips, k, at_start) ==
    IF o.err # NoErr \/ k = 0 THEN o
    ELSE SwapFreshTip(add_tip(o, TipLengthNone, at_start), old_tips, k, at_start)

\* Arrow.scale from VMobject.scale on, popped holding what pop_tips gave
ArrowScalePopped(popped, factor, about, tipped, start_tipped) ==
    IF popped.o.err # NoErr THEN popped.o
    ELSE RestoreTip(
           RestoreTip(
             set_stroke_width_from_length(
                 Mobject_scale(popped.o, factor, about)),
             popped.result, IF tipped THEN 1 ELSE 0, FALSE),
           popped.result, IF start_tipped THEN 2 ELSE 0, TRUE)

\* Arrow.scale past its zero-length guard
ArrowScaleNonzero(o, factor, about) ==
    ArrowScalePopped(
        IF has_tip(o) \/ has_start_tip(o) THEN pop_tips(o)
        ELSE [o |-> o, result |-> <<>>],
        factor, about, has_tip(o), has_start_tip(o))

\* A faulty Arrow.scale without the zero-length guard
Arrow_scale_unguarded(o, factor, about) == ArrowScaleNonzero(o, factor, about)

Arrow_scale(o, factor, about) ==
    IF get_length(o) # Zero THEN ArrowScaleNonzero(o, factor, about)
    ELSE IF EndsSame(o) THEN o
    ELSE Raise(o, Rounding)

\* Line.get_angle in half turns: the vector lies along the axis, and
\* angle_of_vector of the zero vector is 0
get_angle(o) == IF RLt(RSub(get_end(o), get_start(o)), Zero) THEN 1 ELSE 0

\* Line.set_angle(angle) for an angle of 0 or PI (0 or 1 half turns)
set_angle(o, angle) ==
    IF get_length(o) = Zero /\ ~EndsSame(o) THEN Raise(o, Rounding)
    ELSE Mobject_rotate(o, angle # get_angle(o), get_start(o))

\* Line.set_start_and_end_attrs(start, end) with two points: pointify
\* returns np.array(point) whatever the direction
set_start_and_end_attrs(o, start, end) ==
    [o EXCEPT !.start = start, !.end = end, !.attrs_exact = TRUE]

\* Line.set_length
set_length(o, length) ==
    IF get_length(o) = Zero /\ ~EndsSame(o) THEN Raise(o, Rounding)
    ELSE scale(o, RDiv(length, get_length(o)), AboutNone)

\* Line.set_path_arc
set_path_arc(o, new_value) == generate_points([o EXCEPT !.path_arc = new_value])

\* get_tips: the attributes that are set, attached or not
get_tips(o) ==
    (IF o.tip # 0 THEN <<o.tip>> ELSE <<>>)
      \o (IF o.start_tip # 0 THEN <<o.start_tip>> ELSE <<>>)

\* get_tip: 0 stands for the raised Exception("tip not found")
get_tip(o) == IF Len(get_tips(o)) = 0 THEN 0 ELSE get_tips(o)[1]

\* the fields of a freshly made Line
LineFields(s, e, buff, path_arc) ==
    [kind |-> "Line", points |-> <<Zero, Zero, Zero, Zero>>,
     start |-> s, end |-> e, buff |-> buff, path_arc |-> path_arc,
     tip_length |-> DEFAULT_ARROW_TIP_LENGTH,
     submobjects |-> <<>>, heap |-> <<>>, tip |-> 0, start_tip |-> 0,
     stroke_width |-> Zero, initial_stroke_width |-> Zero,
     err |-> NoErr, exact |-> TRUE, flat |-> TRUE, attrs_exact |-> TRUE]

\* Line(start=s, end=e, buff=buff, path_arc=path_arc)
NewLine(s, e, buff, path_arc) == generate_points(LineFields(s, e, buff, path_arc))

\* Arrow.__attrs_post_init__ after add_tip
ArrowInitStroke(o) ==
    IF o.err # NoErr THEN o ELSE set_stroke_width_from_length(o)

\* Arrow(start, end): Arrow.__attrs_post_init__
NewArrow(s, e) ==
    ArrowInitStroke(
      add_tip(
        generate_points(
          [LineFields(s, e, MED_SMALL_BUFF, PathArcNone) EXCEPT
             !.kind = "Arrow",
             !.stroke_width = ARROW_STROKE_WIDTH,
             !.initial_stroke_width = ARROW_STROKE_WIDTH]),
        TipLengthNone, FALSE))

(* ------------------------------------------------------------------ *)
(* Arcs, in the plane.  A vector is a pair of rationals.  A control    *)
(* point of an arc is p + d_theta * d, where d_theta is the angle      *)
(* between two anchors in radians: the record [p, d] keeps the two     *)
(* parts apart, d being the zero vector for an anchor and for every    *)
(* point of a curve whose d_theta is 0.                                *)
(* An angle is k times a unit angle of cosine c and sine s.            *)
(* Square roots are taken of squares of rationals only; the inputs are *)
(* chosen accordingly.                                                 *)
(* ------------------------------------------------------------------ *)
ORIGIN == <<Zero, Zero>>

LEFT == <<<<-1, 1>>, Zero>>

RIGHT == <<One, Zero>>

VAdd(u, v) == <<RAdd(u[1], v[1]), RAdd(u[2], v[2])>>

VSub(u, v) == <<RSub(u[1], v[1]), RSub(u[2], v[2])>>

VScale(k, v) == <<RMul(k, v[1]), RMul(k, v[2])>>

Dot(u, v) == RAdd(RMul(u[1], v[1]), RMul(u[2], v[2]))

\* det(a, b) = a[0] * b[1] - a[1] * b[0]
Det(u, v) == RSub(RMul(u[1], v[2]), RMul(u[2], v[1]))

\* v turned by the angle whose cosine and sine are z[1], z[2]
Turned(z, v) ==
    <<RSub(RMul(z[1], v[1]), RMul(z[2], v[2])),
      RAdd(RMul(z[1], v[2]), RMul(z[2], v[1]))>>

Conj(z) == <<z[1], RNeg(z[2])>>

\* cosine and sine of m times the angle of z
RECURSIVE CPow(_, _)
CPow(z, m) ==
    IF m = 0 THEN <<One, Zero>>
    ELSE IF m < 0 THEN CPow(Conj(z), -m)
    ELSE Turned(z, CPow(z, m - 1))

IsSquareInt(n) == \E k \in 0..n : k * k = n

ISqrt(n) == CHOOSE k \in 0..n : k * k = n

IsSquare(a) == a[1] >= 0 /\ IsSquareInt(a[1]) /\ IsSquareInt(a[2])

\* math.sqrt / np.linalg.norm on the square of a rational
RSqrt(a) == <<ISqrt(a[1]), ISqrt(a[2])>>

Norm(v) == RSqrt(Dot(v, v))

ZeroAngle == [c |-> One, s |-> Zero, k |-> 0]

\* TAU / 4 and PI
QuarterTurn == [c |-> Zero, s |-> One, k |-> 1]

HalfTurn == [c |-> Zero, s |-> One, k |-> 2]

\* angle == 0
IsZeroAngle(a) == a.k = 0 \/ a.c = One

\* math.acos(x), 0 <= x <= 1
acos(x) == [c |-> x, s |-> RSqrt(RSub(One, RMul(x, x))), k |-> 1]

AngleTimes(a, m) == [a EXCEPT !.k = @ * m]

\* angle / m, for an angle whose k is a multiple of m
AngleOver(a, m) == [a EXCEPT !.k = @ \div m]

\* np.cos(j * a) * RIGHT + np.sin(j * a) * UP
UnitVector(a, j) == CPow(<<a.c, a.s>>, a.k * j)

\* radius = None
RadiusNone == <<>>

\* (x, y) -> (-y, x)
Tangent(v) == <<RNeg(v[2]), v[1]>>

\* the d part of a handle: +-(1 / 3) * tangent, times d_theta
HandlePart(d_theta, sign, anchor) ==
    IF IsZeroAngle(d_theta) THEN ORIGIN
    ELSE VScale(<<sign, 3>>, Tangent(anchor))

\* row i of set_anchors_and_handles(anchors[:-1], handles1, handles2,
\* anchors[1:]): cubic (i - 1) \div 4, position (i - 1) % 4 in it
ArcPoint(d_theta, i) ==
    CASE (i - 1) % 4 = 0 ->
            [p |-> UnitVector(d_theta, (i - 1) \div 4), d |-> ORIGIN]
      [] (i - 1) % 4 = 1 ->
            [p |-> UnitVector(d_theta, (i - 1) \div 4),
             d |-> HandlePart(d_theta, 1, UnitVector(d_theta, (i - 1) \div 4))]
      [] (i - 1) % 4 = 2 ->
            [p |-> UnitVector(d_theta, (i - 1) \div 4 + 1),
             d |-> HandlePart(d_theta, -1,
                              UnitVector(d_theta, (i - 1) \div 4 + 1))]
      [] (i - 1) % 4 = 3 ->
            [p |-> UnitVector(d_theta, (i - 1) \div 4 + 1), d |-> ORIGIN]

\* Arc.set_pre_positioned_points with two anchors or more, start_angle = 0
PrePositionedPoints(o) ==
    [o EXCEPT !.points =
        [i \in 1..(4 * (o.num_components - 1)) |->
            ArcPoint(AngleOver(o.angle, o.num_components - 1), i)]]

\* Arc.set_pre_positioned_points: np.linspace refuses a negative number of
\* samples; with one sample `self.angle / (self.num_components - 1.0)` divides
\* a Python float by 0.0; with none `anchors` has one dimension and
\* `anchors[:, 0]` has an index too many.
set_pre_positioned_points(o) ==
    IF o.num_components < 0
    THEN Raise(o, "ValueError: Number of samples must be non-negative")
    ELSE IF o.num_components = 1
    THEN Raise(o, "ZeroDivisionError")
    ELSE IF o.num_components = 0
    THEN Raise(o, "IndexError")
    ELSE PrePositionedPoints(o)

\* Mobject.scale(factor, about_point=about) on the points of the arc
PlaneScale(o, factor, about) ==
    [o EXCEPT !.points =
        [i \in 1..Len(@) |->
            [p |-> VAdd(about, VScale(factor, VSub(@[i].p, about))),
             d |-> VScale(factor, @[i].d)]]]

\* Mobject.rotate(angle, about_point=about), z the angle's cosine and sine
PlaneRotate(o, z, about) ==
    [o EXCEPT !.points =
        [i \in 1..Len(@) |->
            [p |-> VAdd(about, Turned(z, VSub(@[i].p, about))),
             d |-> Turned(z, @[i].d)]]]

\* Mobject.shift(vector)
PlaneShift(o, v) ==
    [o EXCEPT !.points =
        [i \in 1..Len(@) |-> [p |-> VAdd(@[i].p, v), d |-> @[i].d]]]

\* Arc.generate_points after set_pre_positioned_points
ArcScaleAndShift(o) ==
    PlaneShift(PlaneScale(o, o.radius, ORIGIN), o.arc_center)

\* Arc.generate_points: `if self.radius is None: self.radius = 1.0`
ArcDefaultRadius(o) ==
    IF o.radius = RadiusNone THEN [o EXCEPT !.radius = One] ELSE o

\* Arc.generate_points after set_pre_positioned_points, unless it raised
ArcPositioned(o) ==
    IF o.err # NoErr THEN o ELSE ArcScaleAndShift(ArcDefaultRadius(o))

Arc_generate_points(o) == ArcPositioned(set_pre_positioned_points(o))

\* VMobject.set_points_as_corners([a, b])
Arc_set_points_as_corners(o, a, b) ==
    [o EXCEPT !.points =
        <<[p |-> a, d |-> ORIGIN],
          [p |-> VAdd(VScale(<<2, 3>>, a), VScale(<<1, 3>>, b)), d |-> ORIGIN],
          [p |-> VAdd(VScale(<<1, 3>>, a), VScale(<<2, 3>>, b)), d |-> ORIGIN],
          [p |-> b, d |-> ORIGIN]>>]

\* get_norm(target_vect) / get_norm(curr_vect)
NormRatio(t, c) == RSqrt(RQuot(Dot(t, t), Dot(c, c)))

\* cosine and sine of angle_of_vector(t) - angle_of_vector(c), c # 0;
\* angle_of_vector of the zero vector is 0
TurnBetween(c, t) ==
    IF t = ORIGIN THEN VScale(RQuot(One, Norm(c)), Conj(c))
    ELSE VScale(RQuot(One, RMul(Dot(c, c), NormRatio(t, c))),
                <<Dot(c, t), Det(c, t)>>)

\* Mobject.put_start_and_end_on, given the current and the target vector
ArcPutScaled(o, curr_start, curr_vect, start, target_vect) ==
    IF curr_vect = ORIGIN
    THEN Raise(o, "Exception: Cannot position endpoints of closed loop")
    ELSE PlaneShift(
           PlaneRotate(
             PlaneScale(o, NormRatio(target_vect, curr_vect), curr_start),
             TurnBetween(curr_vect, target_vect), curr_start),
           VSub(start, curr_start))

\* Mobject.put_start_and_end_on on an arc, which has no tips here
Arc_put_start_and_end_on(o, start, end) ==
    ArcPutScaled(o, o.points[1].p,
                 VSub(o.points[Len(o.points)].p, o.points[1].p),
                 start, VSub(end, start))

\* utils.space_ops.line_intersection from `div = det(x_diff, y_diff)` on
LineIntersectionOf(x_diff, y_diff, d) ==
    IF Det(x_diff, y_diff) = Zero
    THEN [raised |-> TRUE, point |-> ORIGIN]
    ELSE [raised |-> FALSE,
          point |-> <<RQuot(Det(d, x_diff), Det(x_diff, y_diff)),
                      RQuot(Det(d, y_diff), Det(x_diff, y_diff))>>]

\* utils.space_ops.line_intersection(line1=(p1, p2), line2=(q1, q2))
line_intersection(p1, p2, q1, q2) ==
    LineIntersectionOf(<<RSub(p1[1], p2[1]), RSub(q1[1], q2[1])>>,
                       <<RSub(p1[2], p2[2]), RSub(q1[2], q2[2])>>,
                       <<Det(p1, p2), Det(q1, q2)>>)

\* The tangent h - a of get_arc_center.  On an arc it is d_theta times the
\* d part of the handle; line_intersection gives the same point, and fails
\* in the same cases, with both normals divided by d_theta, so the d part
\* stands for the tangent there.
TangentAt(h, a) ==
    IF h.d # a.d THEN VSub(h.d, a.d) ELSE VSub(h.p, a.p)

\* rotate_vector(t, TAU / 4)
Normal(t) == <<RNeg(t[2]), t[1]>>

\* get_arc_center: what it returns and whether line_intersection raised
ArcCenterFrom(a1, n1, a2, n2) ==
    line_intersection(a1, VAdd(a1, n1), a2, VAdd(a2, n2))

get_arc_center(o) ==
    ArcCenterFrom(o.points[1].p, Normal(TangentAt(o.points[2], o.points[1])),
                  o.points[4].p, Normal(TangentAt(o.points[3], o.points[4])))

\* h - a is the zero vector, and is so in the program's floats: the handle
\* was made from the anchor by adding d_theta / 3 = 0.0 times the tangent, or
\* a scale by 0 has put every point of the arc on the same point.
NoTangent(o, h, a) ==
    IF h.p # a.p THEN FALSE
    ELSE IF h.d = a.d THEN TRUE
    ELSE IsZeroAngle(o.angle)

\* line_intersection tests `div == 0` on floats.  Where the normals are
\* parallel and neither is the zero vector, div is the difference of two
\* rounded products (of coordinates that carry sin(PI) = 1.2e-16 or the
\* residue of a rotation), which is 0.0 or a residue near 1e-17 depending on
\* the last bit of the operands: the call raises, or returns a point far
\* from the arc, and exact numbers do not tell which.  The floats decide as
\* the exact numbers do where the normals meet, and where a normal is the
\* zero vector (div is 0 * x - 0 * y).
CenterDecided(o) ==
    IF ~get_arc_center(o).raised THEN TRUE
    ELSE IF NoTangent(o, o.points[2], o.points[1]) THEN TRUE
    ELSE NoTangent(o, o.points[3], o.points[4])

\* get_arc_center's effect on the arc: the flag it sets in its except branch
MarkCenterFailure(o, found) ==
    [o EXCEPT !.failed_to_get_center = @ \/ found.raised]

\* ArcBetweenPoints.__attrs_post_init__, `if self.radius is None:` at the end
ArcRecordRadius(o, found) ==
    [MarkCenterFailure(o, found) EXCEPT
        !.radius = IF ~(o.failed_to_get_center \/ found.raised)
                   THEN Norm(VSub(o.start, found.point))
                   ELSE PosInf]

ArcInferRadius(o) ==
    IF o.err # NoErr \/ o.radius # RadiusNone THEN o
    ELSE ArcRecordRadius(o, get_arc_center(o))

\* ArcBetweenPoints.__attrs_post_init__ after Arc.__attrs_post_init__
ArcPlaced(o) ==
    ArcInferRadius(
        Arc_put_start_and_end_on(
            IF IsZeroAngle(o.angle) THEN Arc_set_points_as_corners(o, LEFT, RIGHT)
            ELSE o,
            o.start, o.end))

\* ArcBetweenPoints.__attrs_post_init__ with a radius, from arc_height on
ArcAngleFromHeight(o, sign, arc_height) ==
    IF o.radius = Zero THEN Raise(o, "ZeroDivisionError")
    ELSE [o EXCEPT !.angle =
             AngleTimes(acos(RQuot(RSub(o.radius, arc_height), o.radius)), sign)]

\* ArcBetweenPoints.__attrs_post_init__ with a radius, from halfdist on
ArcAngleFromRadius(o, sign, halfdist) ==
    IF RLt(o.radius, halfdist)
    THEN Raise(o, "ValueError: radius smaller than half the distance")
    ELSE ArcAngleFromHeight(o, sign,
             RSub(o.radius,
                  RSqrt(RSub(RMul(o.radius, o.radius), RMul(halfdist, halfdist)))))

\* ArcBetweenPoints.__attrs_post_init__, `if self.radius is not None:`
ArcAngle(o) ==
    IF o.radius = RadiusNone THEN o
    ELSE ArcAngleFromRadius(
             [o EXCEPT !.radius = IF RLt(@, Zero) THEN RNeg(@) ELSE @],
             IF RLt(o.radius, Zero) THEN -2 ELSE 2,
             RQuot(Norm(VSub(o.start, o.end)), Two))

\* Arc.__attrs_post_init__, reached unless the lines before it raised
ArcGenerated(o) ==
    IF o.err # NoErr THEN o ELSE ArcPlaced(Arc_generate_points(o))

\* ArcBetweenPoints(start, end, angle=angle, radius=radius,
\*                  num_components=num_components)
NewArcBetweenPoints(start, end, angle, radius, num_components) ==
    ArcGenerated(
      ArcAngle(
        [kind |-> "ArcBetweenPoints", points |-> <<>>,
         start |-> start, end |-> end, angle |-> angle, radius |-> radius,
         num_components |-> num_components, arc_center |-> ORIGIN,
         failed_to_get_center |-> FALSE, err |-> NoErr]))

\* Arc(radius=radius, angle=angle, num_components=num_components,
\*     arc_center=arc_center)
NewArc(radius, angle, num_components, arc_center) ==
    Arc_generate_points(
        [kind |-> "Arc", points |-> <<>>, angle |-> angle, radius |-> radius,
         num_components |-> num_components, arc_center |-> arc_center,
         failed_to_get_center |-> FALSE, err |-> NoErr])

\* Arc.move_arc_center_to(point)
MoveBy(o, point, found) ==
    PlaneShift(MarkCenterFailure(o, found), VSub(point, found.point))

move_arc_center_to(o, point) == MoveBy(o, point, get_arc_center(o))

\* Arc.stop_angle: the vector whose angle_of_vector, modulo TAU, it returns
stop_angle(o) == VSub(o.points[Len(o.points)].p, get_arc_center(o).point)

(* ------------------------------------------------------------------ *)
(* Polygon and round_corners.  A point of the path is a pair of exact  *)
(* coordinates.                                                        *)
(* ------------------------------------------------------------------ *)
\* a + t * (b - a)
VInterpolate(a, b, t) == VAdd(a, VScale(t, VSub(b, a)))

\* utils.iterables.adjacent_n_tuples(objects, 3)
Cyclic(objects, i) == objects[((i - 1) % Len(objects)) + 1]

adjacent_n_tuples(objects) ==
    [i \in 1..Len(objects) |->
        <<objects[i], Cyclic(objects, i + 1), Cyclic(objects, i + 2)>>]

\* utils.space_ops.normalize
normalize(v) ==
    IF v = ORIGIN THEN ORIGIN ELSE VScale(RQuot(One, Norm(v)), v)

\* utils.space_ops.angle_between_vectors, for vectors that are parallel or
\* perpendicular
angle_between_vectors(v1, v2) ==
    IF Dot(v1, v2) = Zero THEN QuarterTurn
    ELSE IF RLt(Zero, Dot(v1, v2)) THEN ZeroAngle
    ELSE HalfTurn

\* np.sign
Sign(x) == IF RLt(Zero, x) THEN 1 ELSE IF RLt(x, Zero) THEN -1 ELSE 0

\* np.tan(angle / 2) for an angle of 0 or of a quarter turn either way
TanHalf(angle) == RQuot(RMul(R(angle.k, 1), angle.s), RAdd(One, angle.c))

\* round_corners, the body of its loop from cut_off_length on: the call
\* ArcBetweenPoints(v2 - unit_vect1 * cut_off_length,
\*                  v2 + unit_vect2 * cut_off_length, angle=sign * angle)
CornerCut(v2, unit_vect1, unit_vect2, angle, sign, cut_off_length) ==
    ArcBetweenPoints(VSub(v2, VScale(cut_off_length, unit_vect1)),
                     VAdd(v2, VScale(cut_off_length, unit_vect2)),
                     AngleTimes(angle, sign))

\* round_corners, the body of its loop from `angle *= np.sign(radius)`
CornerTurn(v2, vect1, vect2, angle, radius) ==
    CornerCut(v2, normalize(vect1), normalize(vect2), angle,
              Sign(Det(vect1, vect2)), RMul(radius, TanHalf(angle)))

\* round_corners, the body of its loop: the arc made for the corner at v2
CornerArc(v1, v2, v3, radius) ==
    CornerTurn(v2, VSub(v2, v1), VSub(v3, v2),
               AngleTimes(angle_between_vectors(VSub(v2, v1), VSub(v3, v2)),
                          Sign(radius)),
               radius)

\* round_corners, its loop over the corners from corner number i on: the
\* exception of an ArcBetweenPoints call leaves the loop and the method, the
\* arcs made before it dropped with the local list `arcs`.
RECURSIVE CornerArcs(_, _, _, _)
CornerArcs(o, triples, radius, i) ==
    IF i > Len(triples) THEN o
    ELSE IF CornerArc(triples[i][1], triples[i][2], triples[i][3],
                      radius).err # NoErr
    THEN Raise(o, CornerArc(triples[i][1], triples[i][2], triples[i][3],
                            radius).err)
    ELSE CornerArcs(o, triples, radius, i + 1)

\* VMobject.get_start_anchors
get_start_anchors(o) == [i \in 1..(Len(o.points) \div 4) |-> o.points[4 * i - 3]]

get_vertices(o) == get_start_anchors(o)

\* Polygon.round_corners(radius).  Lines 754-764 (clear_points and the loop
\* that appends the arcs and the lines between them) run only if every
\* ArcBetweenPoints call of the first loop returned; a polygon has at least
\* one vertex and the first call raises (see ArcBetweenPoints), so those
\* lines are never reached and the path is left as it was.
round_corners(o, radius) ==
    CornerArcs(o, adjacent_n_tuples(get_vertices(o)), radius, 1)

\* VMobject.set_points_as_corners(corners): a straight cubic per side
CornerPoints(corners) ==
    [r \in 1..(4 * (Len(corners) - 1)) |->
        VInterpolate(corners[(r - 1) \div 4 + 1],
                     corners[(r - 1) \div 4 + 2], R((r - 1) % 4, 3))]

\* Polygon(vertices=vertices)
NewPolygon(vertices) ==
    [kind |-> "Polygon", vertices |-> vertices,
     points |-> CornerPoints(Append(vertices, vertices[1])), err |-> NoErr]

(* ------------------------------------------------------------------ *)
(* The state machine: one object, one call per step.                   *)
(*   obj    the object                                                 *)
(*   born   the object as its constructor left it                      *)
(*   prev   the object as it was when the last call began              *)
(*   op     the last call: its name and its numeric arguments          *)
(*   ret    what get_tip returned (0: it raised), else 0               *)
(*   trail  the names of the calls made since construction             *)
(*   left   the number of calls still to be made                       *)
(* ------------------------------------------------------------------ *)
VARIABLES obj, born, prev, op, ret, trail, left

vars == <<obj, born, prev, op, ret, trail, left>>

MaxCoord == 2

MaxOps == 2

MaxTipOps == 3

Coords == {R(k, 1) : k \in 0..MaxCoord}

Buffs == {Zero, R(1, 4), R(1, 2), R(1, 1)}

ScaleFactors == {R(-1, 1), Zero, R(1, 2), R(2, 1)}

Lengths == {Zero, R(1, 1)}

\* add_tip(), add_tip(tip_length=1 / 3)
TipLengths == {TipLengthNone, R(1, 3)}

\* set_angle(0), set_angle(PI), in half turns
HalfTurns == {0, 1}

\* path_arc = 0 and path_arc = 1 (radians)
PathArcs == {Zero, One}

\* Line(...), Line(..., path_arc=0)
InitPathArcs == {PathArcNone, Zero}

Targets == {<<Zero, R(1, 2)>>, <<R(1, 1), R(1, 1)>>, <<R(2, 1), Zero>>}

\* every coordinate of the object and of its tips is a finite number
Finite(o) ==
    /\ \A i \in 1..4 : IsFinite(o.points[i])
    /\ \A i \in 1..Len(o.heap) :
          IsFinite(o.heap[i].tip_point) /\ IsFinite(o.heap[i].base)

\* A call is made on an object no earlier call has left by an exception or
\* with undefined coordinates.
Callable == obj.err = NoErr /\ Finite(obj) /\ left > 0

Call(name, args, o, r) ==
    /\ o.err # Rounding
    /\ obj' = o
    /\ prev' = obj
    /\ op' = [name |-> name, args |-> args]
    /\ ret' = r
    /\ trail' = Append(trail, name)
    /\ left' = left - 1
    /\ UNCHANGED born

InitLine ==
    \E s \in Coords, e \in Coords, b \in Buffs, a \in InitPathArcs :
       /\ NewLine(s, e, b, a).err # Rounding
       /\ obj = NewLine(s, e, b, a)
       /\ op = [name |-> "Line", args |-> <<s, e, b, a>>]

InitArrow ==
    \E s \in Coords, e \in Coords :
       /\ NewArrow(s, e).err # Rounding
       /\ obj = NewArrow(s, e)
       /\ op = [name |-> "Arrow", args |-> <<s, e>>]

InitRest ==
    /\ born = obj
    /\ prev = obj
    /\ ret = 0
    /\ trail = <<>>

Init ==
    /\ InitLine \/ InitArrow
    /\ InitRest
    /\ left = MaxOps

AddTip ==
    /\ Callable
    /\ \E tip_length \in TipLengths :
          Call("add_tip", <<tip_length>>, add_tip(obj, tip_length, FALSE), 0)

AddStartTip ==
    /\ Callable
    /\ \E tip_length \in TipLengths :
          Call("add_tip_at_start", <<tip_length>>,
               add_tip(obj, tip_length, TRUE), 0)

PopTips ==
    /\ Callable
    /\ Call("pop_tips", <<>>, pop_tips(obj).o, 0)

GetTip ==
    /\ Callable
    /\ Call("get_tip", <<>>,
            IF get_tip(obj) = 0 THEN Raise(obj, "Exception: tip not found")
            ELSE obj,
            get_tip(obj))

Scale ==
    /\ Callable
    /\ \E k \in ScaleFactors : Call("scale", <<k>>, scale(obj, k, AboutNone), 0)

SetLength ==
    /\ Callable
    /\ \E l \in Lengths : Call("set_length", <<l>>, set_length(obj, l), 0)

PutStartAndEndOn ==
    /\ Callable
    /\ \E t \in Targets :
          Call("put_start_and_end_on", t, put_start_and_end_on(obj, t[1], t[2], TRUE), 0)

SetPathArc ==
    /\ Callable
    /\ \E new_value \in PathArcs :
          Call("set_path_arc", <<new_value>>, set_path_arc(obj, new_value), 0)

SetAngle ==
    /\ Callable
    /\ \E angle \in HalfTurns :
          Call("set_angle", <<angle>>, set_angle(obj, angle), 0)

GeneratePoints ==
    /\ Callable
    /\ Call("generate_points", <<>>, generate_points(obj), 0)

SetStartAndEndAttrs ==
    /\ Callable
    /\ \E t \in Targets :
          Call("set_start_and_end_attrs", t,
               set_start_and_end_attrs(obj, t[1], t[2]), 0)

\* Arrow.set_stroke_width_from_length; a Line has no such method
SetStrokeWidthFromLength ==
    /\ Callable
    /\ obj.kind = "Arrow"
    /\ Call("set_stroke_width_from_length", <<>>,
            set_stroke_width_from_length(obj), 0)

\* the ends at which create_tip() turns its tip by a known angle
TipEnds(o) ==
    {at_start \in BOOLEAN :
        TurnKnown(o, get_unpositioned_tip(o, TipLengthNone), at_start)}

\* reset_endpoints_based_on_tip(tip, at_start) and asign_tip_attr(tip,
\* at_start), called with a tip that self.create_tip(at_start=at_start) made
ResetEndpointsBasedOnTip ==
    /\ Callable
    /\ \E at_start \in TipEnds(obj) :
          Call("reset_endpoints_based_on_tip", <<at_start>>,
               reset_endpoints_based_on_tip(
                   obj, create_tip(obj, TipLengthNone, at_start), at_start), 0)

AsignTipAttr ==
    /\ Callable
    /\ \E at_start \in TipEnds(obj) :
          Call("asign_tip_attr", <<at_start>>,
               asign_tip_attr(
                   obj, create_tip(obj, TipLengthNone, at_start), at_start), 0)

AccountForBuff ==
    /\ Callable
    /\ Call("account_for_buff", <<>>, account_for_buff(obj), 0)

\* the tips attached to o
TipsOn(o) ==
    {i \in 1..Len(o.heap) :
        InGroup(o.submobjects, i) /\ (i = o.tip \/ i = o.start_tip)}

\* position_tip(tip, at_start) on the attached tip `id`: the tip keeps its
\* length and the end it was created for
PositionAttachedTip(o, id, at_start) ==
    [o EXCEPT !.heap[id] =
        [position_tip(o, ArrowTip_get_length(o.heap[id]), at_start)
         EXCEPT !.at_start = o.heap[id].at_start]]

\* self.position_tip(self.tip, at_start), self.position_tip(self.start_tip,
\* at_start)
PositionTip ==
    /\ Callable
    /\ \E id \in TipsOn(obj), at_start \in BOOLEAN :
          /\ TurnKnown(obj, ArrowTip_get_length(obj.heap[id]), at_start)
          /\ Call("position_tip", <<id, at_start>>,
                  PositionAttachedTip(obj, id, at_start), 0)

Next ==
    \/ AddTip
    \/ AddStartTip
    \/ PopTips
    \/ GetTip
    \/ Scale
    \/ SetLength
    \/ PutStartAndEndOn
    \/ SetPathArc
    \/ AccountForBuff
    \/ SetAngle
    \/ GeneratePoints
    \/ SetStartAndEndAttrs
    \/ SetStrokeWidthFromLength
    \/ ResetEndpointsBasedOnTip
    \/ AsignTipAttr
    \/ PositionTip

Spec == Init /\ [][Next]_vars

\* Lines and arrows under the methods that make, move and resize the curve
\* and its tips, without the direct calls of the helpers those methods use
NextLine ==
    \/ AddTip
    \/ AddStartTip
    \/ PopTips
    \/ GetTip
    \/ Scale
    \/ SetLength
    \/ PutStartAndEndOn
    \/ SetPathArc
    \/ AccountForBuff

SpecLine == Init /\ [][NextLine]_vars

\* The tip protocol alone, on lines and arrows, with longer runs
InitTips ==
    /\ InitLine \/ InitArrow
    /\ InitRest
    /\ left = MaxTipOps

NextTips ==
    \/ AddTip
    \/ AddStartTip
    \/ PopTips
    \/ GetTip

SpecTips == InitTips /\ [][NextTips]_vars

\* An Arrow under the tip methods and scale
InitArrowTips ==
    /\ InitArrow
    /\ InitRest
    /\ left = MaxTipOps

NextArrowTips ==
    \/ AddTip
    \/ AddStartTip
    \/ PopTips
    \/ Scale

SpecArrowTips == InitArrowTips /\ [][NextArrowTips]_vars

\* The arcs between two points
ArcEnds ==
    {ORIGIN, <<Two, Zero>>, <<Zero, Two>>, <<<<-2, 1>>, Zero>>, <<Two, Two>>}

Radii == {Zero, One, <<-1, 1>>, <<5, 4>>, <<-5, 4>>, Two, <<5, 2>>, <<1, 2>>}

Angles == {ZeroAngle, QuarterTurn, AngleTimes(QuarterTurn, -1), HalfTurn}

NumComponents == {2, 3}

\* The square roots of the constructor are of squares, and d_theta is a
\* whole multiple of the unit angle.
RadiusInput(s, e, r) ==
    /\ IsSquare(Dot(VSub(s, e), VSub(s, e)))
    /\ IsSquare(RSub(RMul(r, r), RQuot(Dot(VSub(s, e), VSub(s, e)), <<4, 1>>)))
          \/ RLt(RMul(r, r), RQuot(Dot(VSub(s, e), VSub(s, e)), <<4, 1>>))

\* the chord of the unit arc (or of the segment from LEFT to RIGHT) squared
UnitChord2(a) ==
    IF IsZeroAngle(a) THEN <<4, 1>>
    ELSE Dot(VSub(UnitVector(a, 1), RIGHT), VSub(UnitVector(a, 1), RIGHT))

AngleInput(s, e, a, n) ==
    /\ a.k % (n - 1) = 0
    /\ IsSquare(RQuot(Dot(VSub(e, s), VSub(e, s)), UnitChord2(a)))
    /\ s = e => IsSquare(UnitChord2(a))

InitArcRadius ==
    \E s \in ArcEnds, e \in ArcEnds, r \in Radii, n \in NumComponents :
       /\ RadiusInput(s, e, r)
       /\ obj = NewArcBetweenPoints(s, e, QuarterTurn, r, n)
       /\ op = [name |-> "ArcBetweenPoints", mode |-> "radius", start |-> s,
                end |-> e, radius |-> r, num_components |-> n]

InitArcAngle ==
    \E s \in ArcEnds, e \in ArcEnds, a \in Angles, n \in NumComponents :
       /\ AngleInput(s, e, a, n)
       /\ obj = NewArcBetweenPoints(s, e, a, RadiusNone, n)
       /\ op = [name |-> "ArcBetweenPoints", mode |-> "angle", start |-> s,
                end |-> e, angle |-> a, num_components |-> n]

InitArc ==
    /\ InitArcRadius \/ InitArcAngle
    /\ born = obj
    /\ prev = obj
    /\ ret = ORIGIN
    /\ trail = <<>>
    /\ left = MaxOps

\* A call is made on an arc whose constructor returned.  get_arc_center and
\* the methods that call it are followed where the floats of the program
\* decide as exact numbers do (CenterDecided).
CallableArc == obj.err = NoErr /\ left > 0

CallArc(name, point, o, r) ==
    /\ obj' = o
    /\ prev' = obj
    /\ op' = [name |-> name, point |-> point]
    /\ ret' = r
    /\ trail' = Append(trail, name)
    /\ left' = left - 1
    /\ UNCHANGED born

GetArcCenter ==
    /\ CallableArc
    /\ CenterDecided(obj)
    /\ CallArc("get_arc_center", ORIGIN,
               MarkCenterFailure(obj, get_arc_center(obj)),
               get_arc_center(obj).point)

MoveArcCenterTo ==
    /\ CallableArc
    /\ CenterDecided(obj)
    /\ \E point \in ArcEnds :
          CallArc("move_arc_center_to", point,
                  move_arc_center_to(obj, point), ORIGIN)

StopAngle ==
    /\ CallableArc
    /\ CenterDecided(obj)
    /\ CallArc("stop_angle", ORIGIN,
               MarkCenterFailure(obj, get_arc_center(obj)), stop_angle(obj))

ArcGeneratePoints ==
    /\ CallableArc
    /\ CallArc("generate_points", ORIGIN, Arc_generate_points(obj), ORIGIN)

SetPrePositionedPoints ==
    /\ CallableArc
    /\ CallArc("set_pre_positioned_points", ORIGIN,
               set_pre_positioned_points(obj), ORIGIN)

NextArc ==
    \/ GetArcCenter
    \/ MoveArcCenterTo
    \/ StopAngle
    \/ ArcGeneratePoints
    \/ SetPrePositionedPoints

SpecArc == InitArc /\ [][NextArc]_vars

\* The arcs made by Arc itself, from a radius, an angle, a number of anchors
\* and a center
SegmentCounts == -1..3

ArcRadii == Radii \cup {RadiusNone}

InitArcPlain ==
    /\ \E r \in ArcRadii, a \in Angles, n \in SegmentCounts, c \in ArcEnds :
          /\ n >= 2 => a.k % (n - 1) = 0
          /\ obj = NewArc(r, a, n, c)
          /\ op = [name |-> "Arc", radius |-> r, angle |-> a,
                   num_components |-> n, arc_center |-> c]
    /\ born = obj
    /\ prev = obj
    /\ ret = ORIGIN
    /\ trail = <<>>
    /\ left = MaxOps

SpecArcPlain == InitArcPlain /\ [][NextArc]_vars

\* The polygons: the rectangles on the grid, from any corner and in either
\* direction, a hexagon with a reflex corner and a pentagon with a vertex in
\* the middle of a side
Rectangle(x0, y0, x1, y1) == <<<<x0, y0>>, <<x1, y0>>, <<x1, y1>>, <<x0, y1>>>>

Hexagon ==
    <<ORIGIN, <<Two, Zero>>, <<Two, One>>, <<One, One>>, <<One, Two>>,
      <<Zero, Two>>>>

Pentagon == <<ORIGIN, <<One, Zero>>, <<Two, Zero>>, <<Two, Two>>, <<Zero, Two>>>>

Rotated(vertices, k) == [i \in 1..Len(vertices) |-> Cyclic(vertices, i + k)]

Reversed(vertices) ==
    [i \in 1..Len(vertices) |-> vertices[Len(vertices) + 1 - i]]

Outlines ==
    {Rectangle(x0, y0, x1, y1) :
        <<x0, y0, x1, y1>> \in
            {q \in Coords \X Coords \X Coords \X Coords :
                RLt(q[1], q[3]) /\ RLt(q[2], q[4])}}
      \cup {Hexagon, Pentagon}

VertexLists ==
    {Rotated(p, k) : <<p, k>> \in Outlines \X (0..3)}
      \cup {Reversed(p) : p \in Outlines}

CornerRadii == {Zero, R(1, 2), R(-1, 2), One}

InitPolygon ==
    /\ \E vertices \in VertexLists :
          /\ obj = NewPolygon(vertices)
          /\ op = [name |-> "Polygon", args |-> <<vertices>>]
    /\ born = obj
    /\ prev = obj
    /\ ret = <<>>
    /\ trail = <<>>
    /\ left = MaxOps

CallablePolygon == obj.err = NoErr /\ left > 0

RoundCorners ==
    /\ CallablePolygon
    /\ \E radius \in CornerRadii :
          Call("round_corners", <<radius>>, round_corners(obj, radius), <<>>)

GetVertices ==
    /\ CallablePolygon
    /\ Call("get_vertices", <<>>, obj, get_vertices(obj))

NextPolygon ==
    \/ RoundCorners
    \/ GetVertices

SpecPolygon == InitPolygon /\ [][NextPolygon]_vars

(* ------------------------------------------------------------------ *)
(* The claims                                                          *)
(* ------------------------------------------------------------------ *)
\* every call so far was an add_tip, at either end
OnlyAddTips ==
    \A i \in 1..Len(trail) : trail[i] \in {"add_tip", "add_tip_at_start"}

\* the children of o that are tips made for the given end
TipChildren(o, at_start) ==
    {i \in 1..Len(o.submobjects) : o.heap[o.submobjects[i]].at_start = at_start}

\* C1: after any sequence of add_tip calls the curve has at most one end-tip
\* child and at most one start-tip child (a second add_tip at an end replaces
\* the earlier tip, which is no longer among the children).
C1_AtMostOneTipPerEnd ==
    (OnlyAddTips /\ obj.err = NoErr) =>
        /\ Cardinality(TipChildren(obj, FALSE)) <= 1
        /\ Cardinality(TipChildren(obj, TRUE)) <= 1

\* add_tip at one end or at both ends, then pop_tips
RoundTrips ==
    {<<"add_tip", "pop_tips">>,
     <<"add_tip_at_start", "pop_tips">>,
     <<"add_tip", "add_tip_at_start", "pop_tips">>,
     <<"add_tip_at_start", "add_tip", "pop_tips">>}

\* C2: on a line, add_tip (at either end, or at both) followed by pop_tips
\* completes and leaves the line with no attached tip and with get_start()
\* and get_end() equal to the endpoints it had before the tip was attached.
C2_AddPopRoundTrip ==
    (born.kind = "Line" /\ trail \in RoundTrips) =>
        /\ obj.err = NoErr
        /\ ~has_tip(obj)
        /\ ~has_start_tip(obj)
        /\ obj.submobjects = <<>>
        /\ get_start(obj) = get_start(born)
        /\ get_end(obj) = get_end(born)

\* the length account_for_buff measures
BuffLength(o) == IF o.path_arc = Zero THEN get_length(o) ELSE get_arc_length(o)

\* the calls that run account_for_buff: the method itself, and
\* generate_points, which the constructor and set_path_arc call
BuffCalls == {"account_for_buff", "Line", "set_path_arc", "generate_points"}

\* the curve account_for_buff was called on: the object of the call, or the
\* corners generate_points had just set
Buffed ==
    IF op.name = "account_for_buff" THEN prev
    ELSE set_points_as_corners(obj, obj.start, obj.end)

\* C3: account_for_buff leaves the curve unchanged whenever buff = 0 or
\* 2 * buff >= length, the boundary 2 * buff = length included; otherwise it
\* trims the proportion buff / length from each end.
C3_AccountForBuffNoOp ==
    (op.name \in BuffCalls /\ obj.err = NoErr) =>
        IF Buffed.buff = Zero \/ RLe(BuffLength(Buffed), RMul(Two, Buffed.buff))
        THEN obj = Buffed
        ELSE /\ obj.points[1] =
                  Interpolate(Buffed.points[1], Buffed.points[4],
                              RQuot(Buffed.buff, BuffLength(Buffed)))
             /\ obj.points[4] =
                  Interpolate(Buffed.points[4], Buffed.points[1],
                              RQuot(Buffed.buff, BuffLength(Buffed)))

\* every call so far was a scale
OnlyScales == \A i \in 1..Len(trail) : trail[i] = "scale"

\* the attached tip follows the length policy
TipLengthPolicy(o) ==
    /\ has_tip(o)
    /\ ArrowTip_get_length(o.heap[o.tip]) =
          RMin(o.tip_length,
               RMul(MAX_TIP_LENGTH_TO_LENGTH_RATIO, get_length(o)))

\* C4: for an Arrow of nonzero length, after construction and after every
\* later scale by a positive factor, the attached tip's length is
\* min(tip_length, max_tip_length_to_length_ratio * L), L the arrow's length
\* after the operation.
C4_TipLengthPolicy ==
    (/\ born.kind = "Arrow"
     /\ get_length(born) # Zero
     /\ OnlyScales
     /\ trail # <<>> => (RLt(Zero, op.args[1]) /\ get_length(prev) # Zero)) =>
        (obj.err = NoErr /\ TipLengthPolicy(obj))

\* C4's case: an arrow whose tip had the full tip_length was scaled down and
\* its tip shrank to the quarter of the new length.
C4_Witness ==
    /\ born.kind = "Arrow"
    /\ trail = <<"scale">>
    /\ op.args[1] = <<1, 2>>
    /\ obj.err = NoErr
    /\ get_length(obj) # Zero
    /\ ArrowTip_get_length(prev.heap[prev.tip]) = prev.tip_length
    /\ RLt(ArrowTip_get_length(obj.heap[obj.tip]), obj.tip_length)

LengthChanging ==
    {"Arrow", "scale", "set_length", "put_start_and_end_on", "set_path_arc",
     "add_tip", "add_tip_at_start", "pop_tips"}

\* C5: for an Arrow, after construction and after every length-changing
\* operation, the stroke width is
\* min(configured stroke width, max_stroke_width_to_length_ratio * length).
C5_StrokeWidthTracksLength ==
    (/\ obj.kind = "Arrow"
     /\ op.name \in LengthChanging
     /\ obj.err = NoErr
     /\ Finite(obj)) =>
        obj.stroke_width =
            RMin(obj.initial_stroke_width,
                 RMul(MAX_STROKE_WIDTH_TO_LENGTH_RATIO, get_length(obj)))

\* C6: scaling an Arrow of zero length changes nothing, for every factor: the
\* points, the tips, the children and the stroke width stay and no error is
\* raised.
C6_ZeroLengthScaleNoOp ==
    (op.name = "scale" /\ prev.kind = "Arrow" /\ get_length(prev) = Zero) =>
        obj = prev

\* C6's case: a zero-length arrow that carries a tip was scaled by 2.
C6_Witness ==
    /\ op.name = "scale"
    /\ op.args[1] = Two
    /\ prev.kind = "Arrow"
    /\ has_tip(prev)
    /\ get_length(prev) = Zero

\* C7: set_length on a curve of zero length fails with an error or leaves the
\* geometry unchanged, and never writes NaN or infinite coordinates; on a
\* curve of nonzero length the resulting length is the requested one.
C7_SetLengthGuarded ==
    (op.name = "set_length") =>
        IF get_length(prev) = Zero
        THEN Finite(obj) /\ (obj.err # NoErr \/ obj.points = prev.points)
        ELSE obj.err = NoErr /\ get_length(obj) = op.args[1]

\* C8: after any add_tip and pop_tips calls, get_tip raises whenever no tip is
\* attached to the curve, and returns a tip only when that tip is attached.
C8_GetTipOnlyAttached ==
    (op.name = "get_tip") =>
        IF ~has_tip(prev) /\ ~has_start_tip(prev)
        THEN ret = 0 /\ obj.err # NoErr
        ELSE ret # 0 /\ InGroup(prev.submobjects, ret)

\* half the distance between the two points given to the constructor
HalfDist == RQuot(Norm(VSub(op.start, op.end)), Two)

\* C9: ArcBetweenPoints(p1, p2, radius=r) succeeds when |r| >= |p1 - p2| / 2,
\* and the path's first and last anchors are then p1 and p2; when
\* |r| < |p1 - p2| / 2 it fails with an error before any point is generated.
C9_RadiusConstruction ==
    (op.name = "ArcBetweenPoints" /\ op.mode = "radius") =>
        IF RLe(HalfDist, RAbs(op.radius))
        THEN /\ obj.err = NoErr
             /\ obj.points[1] = [p |-> op.start, d |-> ORIGIN]
             /\ obj.points[Len(obj.points)] = [p |-> op.end, d |-> ORIGIN]
        ELSE obj.err # NoErr /\ obj.points = <<>>

\* the center inferred from the arc's points is at the recorded radius from
\* the start, and the radius is infinite when there is none to infer
RadiusAsInferred(o, found) ==
    IF found.raised THEN o.radius = PosInf
    ELSE /\ IsFinite(o.radius)
         /\ RLe(Zero, o.radius)
         /\ RMul(o.radius, o.radius) =
               Dot(VSub(o.start, found.point), VSub(o.start, found.point))

\* C10: an ArcBetweenPoints made from an angle, with no radius, is made
\* without an error from the center inference; its recorded radius is
\* infinite exactly when the inference fails and is otherwise the distance
\* from start to the inferred center; and a get_arc_center that fails tells
\* its caller so.
C10_AngleModeRadius ==
    /\ (op.name = "ArcBetweenPoints" /\ op.mode = "angle") =>
          (obj.err = NoErr /\ RadiusAsInferred(obj, get_arc_center(obj)))
    /\ (op.name = "get_arc_center" /\ get_arc_center(prev).raised) =>
          obj.failed_to_get_center

\* a failure that names the parameter it rejects
ParameterErrors == {"ValueError: Number of samples must be non-negative"}

\* every point of the path is the same point
SinglePoint(o) ==
    \A i \in 1..Len(o.points) :
        o.points[i].p = o.points[1].p /\ o.points[i].d = ORIGIN

\* C11: Arc generation with n >= 2 anchors makes n - 1 cubic curves,
\* 4 * (n - 1) points; with n < 2 or radius 0 it either fails with a parameter
\* error or leaves a path that is a single point (or empty), and it never
\* fails with an arithmetic error such as a division by zero.
C11_ArcGeneration ==
    (op.name = "Arc") =>
        /\ (op.num_components >= 2 /\ op.radius # Zero) =>
               (obj.err = NoErr /\ Len(obj.points) = 4 * (op.num_components - 1))
        /\ (op.num_components < 2 \/ op.radius = Zero) =>
               \/ obj.err \in ParameterErrors
               \/ obj.err = NoErr /\ SinglePoint(obj)

\* the tip at the given end, when one is attached there
EndTip(o) == o.heap[o.tip]

StartTip(o) == o.heap[o.start_tip]

\* C12: get_end is the last anchor of the path when no end tip is
\* attached and the end tip's base point while one is attached; get_start is
\* the first anchor with no start tip and the start tip's base point while a
\* start tip is attached.
C12_EndsAtTipBase ==
    /\ get_end(obj) = IF has_tip(obj) THEN EndTip(obj).base ELSE obj.points[4]
    /\ get_start(obj) =
          IF has_start_tip(obj) THEN StartTip(obj).base ELSE obj.points[1]

\* the tips attached to o: the end tip, then the start tip
AttachedTips(o) ==
    (IF has_tip(o) THEN <<o.tip>> ELSE <<>>)
      \o (IF has_start_tip(o) THEN <<o.start_tip>> ELSE <<>>)

\* the children of o are its attached tips and nothing else, one per end
OneTipPerTippedEnd(o) ==
    /\ Len(o.submobjects) = Len(AttachedTips(o))
    /\ \A i \in 1..Len(o.submobjects) : InGroup(AttachedTips(o), o.submobjects[i])

\* C13: scaling an Arrow of nonzero length that has a tip at the end, at the
\* start or at both ends completes without an error and keeps the tip
\* configuration: the same ends are tipped, each with exactly one tip child,
\* tip and start_tip refer to the objects they referred to before, and the
\* replacement tip made on the way is no longer a child.
C13_ScaleKeepsTips ==
    (/\ op.name = "scale"
     /\ prev.kind = "Arrow"
     /\ get_length(prev) # Zero
     /\ has_tip(prev) \/ has_start_tip(prev)
     /\ OneTipPerTippedEnd(prev)) =>
        /\ obj.err = NoErr
        /\ has_tip(obj) = has_tip(prev)
        /\ has_start_tip(obj) = has_start_tip(prev)
        /\ AttachedTips(obj) = AttachedTips(prev)
        /\ OneTipPerTippedEnd(obj)

\* P lies on the segment from A to B
OnSegment(P, A, B) ==
    /\ Det(VSub(P, A), VSub(B, A)) = Zero
    /\ RLe(Zero, Dot(VSub(P, A), VSub(B, A)))
    /\ RLe(Dot(VSub(P, A), VSub(B, A)), Dot(VSub(B, A), VSub(B, A)))

\* every cubic of the path begins where the one before it ended, and the
\* last ends where the first began
ClosedWithoutGaps(path) ==
    /\ Len(path) > 0
    /\ Len(path) % 4 = 0
    /\ \A c \in 1..(Len(path) \div 4 - 1) : path[4 * c] = path[4 * c + 1]
    /\ path[Len(path)] = path[1]

\* the number of curves of an Arc with the default num_components = 9
ArcCurves == 8

\* C14: round_corners on a polygon with n vertices builds one arc per
\* vertex and emits them in cyclic vertex order starting from the arc built
\* last, each arc followed at once by a straight connector from its end to
\* the next arc's start (the last connector returning to the start of the
\* arc emitted first), so that the path is a closed loop without gaps; the
\* stored list of vertices is left as it was.  On the path: the call
\* returns, the path has the curves of n arcs and n connectors at least,
\* it begins with the arc built last, which leaves the side from the last
\* vertex to the first, and it is closed without gaps.
C14_RoundCornersLoop ==
    (op.name = "round_corners") =>
        /\ obj.err = NoErr
        /\ obj.vertices = prev.vertices
        /\ Len(obj.points) >= 4 * (ArcCurves + 1) * Len(prev.vertices)
        /\ ClosedWithoutGaps(obj.points)
        /\ OnSegment(obj.points[1], prev.vertices[Len(prev.vertices)],
                     prev.vertices[1])

====
